---- MODULE Spec2Model ----
(***************************************************************************)
(* Soramimi: the archive-and-replay engine of src/unnamed/part_000 (the    *)
(* timestamped variant; src/soramimi.js is the earlier variant without     *)
(* timestamps).  A capture callback appends timestamped segments to a      *)
(* bounded archive, two timers (a probabilistic interval and a guarantee   *)
(* timeout) trigger the replay of a randomly chosen fragment, and          *)
(* start/stop drive the session.                                           *)
(*                                                                         *)
(* Conventions                                                             *)
(*  - Time is in milliseconds; `now` is Date.now().                        *)
(*  - A value of Math.random() is k / RandDen with k in 0..RandDen-1.      *)
(*  - Array indices keep the source's 0-based numbering; the TLA+          *)
(*    sequence ARCHIVE_QUEUE holds index i at position i + 1.              *)
(*  - An audio context, the getUserMedia request issued by the same        *)
(*    startSoramimi call and the stream it yields share one number.        *)
(***************************************************************************)
EXTENDS Integers, Sequences, FiniteSets, TLC

\* ------------------------------------------------------------------ bounds
MaxEvents == 3        \* audio contexts created, capture callbacks, playback
                      \* invocations that pass the guard and configuration
                      \* changes in one behaviour, in total
MaxElapsed == 4001    \* horizon of the clock, ms after Epoch
RandDen == 1000       \* resolution of Math.random(): values k / RandDen
Epoch == 100000       \* Date.now() when the page is loaded
BlockMs == 100        \* spacing of the capture callbacks of a warm archive
DrawStep == 7         \* spacing of the dense random draws

\* ------------------------------------------------------- program constants
MAX_ARCHIVE_SEGMENTS == 300
BUFFER_SIZE == 4096
SEGMENT_MIN_SEC == 2
SEGMENT_MAX_SEC == 5
EXCLUDE_RECENT_MS == 4000
INITIAL_CHECK_INTERVAL == 10000
INITIAL_PROBABILITY == 5
MIN_ARCHIVE_FOR_TRIGGER == 10
FIRST_GUARANTEE_SPAN == 30000
GUARANTEE_SPAN == 60000
GUARANTEE_BASE == 1000
MIN_CHECK_INTERVAL == 1000

\* --------------------------------------------------------- enumerated inputs
\* values of Math.random() used by the session specifications (numerators)
RandomValues == {0, RandDen - 1}
\* values of Math.random() used where a claim ranges over every draw
DenseRandomValues == {k \in 0..(RandDen - 1) : k % DrawStep = 0} \cup {RandDen - 1}
\* values of Math.random() for the fragment duration in the session
\* specifications
DurationValues == {0}
\* audioContext.sampleRate as the platform may choose it
SampleRates == {44100}
AllSampleRates == {8000, 22050, 44100, 48000, 96000}
\* steps of the clock
TickSteps == {EXCLUDE_RECENT_MS, EXCLUDE_RECENT_MS + 1}
\* values of the interval input, seconds * 10^6, and a non-numeric value
IntervalInputs ==
    { [nan |-> FALSE, micro |-> 1000000], [nan |-> FALSE, micro |-> 0],
      [nan |-> FALSE, micro |-> -3000000], [nan |-> TRUE, micro |-> 0] }
\* values of the probability slider, percent
ProbabilityInputs == {100}

CtxIds == 1..(MaxEvents + 2)

VARIABLES
    now,                    \* Date.now()
    audioContext,           \* 0 (null) or the id of an audio context
    contexts,               \* id -> [state, closing, sampleRate, processors]
    nextCtx,                \* number of audio contexts created so far
    micPending,             \* getUserMedia requests not yet settled
    stream,                 \* 0 (null) or the id of a stream
    liveStreams,            \* streams whose tracks have not been stopped
    mediaStreamSource,      \* 0 (null) or the context of the source node
    scriptProcessorNode,    \* 0 (null) or the context of the processor node
    monitoringGain,         \* 0 (null) or the context of the monitoring gain
    monitoringConnected,
    randomTriggerInterval,  \* 0 (null) or the handle of the interval timer
    guaranteeTimer,         \* 0 (null) or the handle of the guarantee timeout
    intervals,              \* the platform's armed interval timers
    timeouts,               \* the platform's armed timeouts
    ARCHIVE_QUEUE,          \* sequence of [n, t, len]
    TRIGGER_CHECK_INTERVAL, \* ms
    TRIGGER_PROBABILITY,    \* in hundredths: 5 stands for 0.05
    plays,                  \* playback invocations in flight
    startDisabled,          \* startButton.disabled
    stopDisabled,           \* stopButton.disabled
    soraMimiStatus,         \* "none" or "occurring"
    recordingDotSora,       \* recordingDot carries the class 'sora'
    lastOp,                 \* history: the timer callback or key handler that
                            \* ran in the last step and reached its playback
                            \* call, or "onended" for a completion callback
    lastPlay,               \* history: what the last playRandomSoraMimi did
    captured,               \* history: appends since the archive was last cleared
    nPlays,                 \* history: playback invocations past the guard
    stoppedSince,           \* history: stopSoramimi ran, no startSoramimi since
    stopMark,               \* history: value of captured at the last stopSoramimi
    lastDraw,               \* history: the draw of the interval tick that ran in
                            \* the last step, -1 after any other step
    lastPlayAt,             \* history: time of the last playback invocation
                            \* past the guard, 0 before the first
    nEvents                 \* history: events counted against MaxEvents

vars == << now, audioContext, contexts, nextCtx, micPending, stream,
           liveStreams, mediaStreamSource, scriptProcessorNode,
           monitoringGain, monitoringConnected, randomTriggerInterval,
           guaranteeTimer, intervals, timeouts, ARCHIVE_QUEUE,
           TRIGGER_CHECK_INTERVAL, TRIGGER_PROBABILITY, plays,
           startDisabled, stopDisabled, soraMimiStatus, recordingDotSora,
           lastOp, lastPlay, captured, nPlays, stoppedSince, stopMark,
           lastDraw, lastPlayAt, nEvents >>

\* ------------------------------------------------------------------ helpers
Min(a, b) == IF a <= b THEN a ELSE b
Max(a, b) == IF a >= b THEN a ELSE b

\* Math.floor(Math.random() * n) for the draw k / RandDen
FloorRandom(k, n) == (k * n) \div RandDen

\* Math.round(num / den) for num >= 0, den > 0: halves round up
MathRound(num, den) == (2 * num + den) \div (2 * den)

NoPlay == [ played |-> FALSE ]

NoContext == [ state |-> "none", closing |-> FALSE, sampleRate |-> 0,
               processors |-> 0 ]

\* audioContext && audioContext.state === 'running'
ContextRunning ==
    audioContext # 0 /\ contexts[audioContext].state = "running"

\* ---------------------------------------------------------- platform timers
\* setInterval / setTimeout hand out a handle no armed timer carries
NewTimerId(ivs, tos) ==
    LET used == {x.id : x \in ivs \cup tos}
    IN  CHOOSE i \in 1..(Cardinality(used) + 1) : i \notin used

\* clearInterval(handle) / clearTimeout(handle)
ClearTimer(table, handle) == {x \in table : x.id # handle}

\* the earliest instant at which an armed timer is due
TimerDues == {x.due : x \in intervals \cup timeouts}

\* ------------------------------------------------------------ archiveAudio
\* mutant: the new segment is put at the front (unshift) and the last one
\* is dropped
ArchivePushAtFront(queue, n, t) ==
    LET pushed == << [n |-> n, t |-> t, len |-> BUFFER_SIZE] >> \o queue
    IN  IF Len(pushed) > MAX_ARCHIVE_SEGMENTS
        THEN SubSeq(pushed, 1, MAX_ARCHIVE_SEGMENTS)
        ELSE pushed

\* mutant: the eviction removes two segments
ArchivePushEvictTwo(queue, n, t) ==
    LET pushed == Append(queue, [n |-> n, t |-> t, len |-> BUFFER_SIZE])
    IN  IF Len(pushed) > MAX_ARCHIVE_SEGMENTS THEN Tail(Tail(pushed)) ELSE pushed

\* mutant: the push without the eviction
ArchivePushNoEvict(queue, n, t) ==
    Append(queue, [n |-> n, t |-> t, len |-> BUFFER_SIZE])

\* mutant: the eviction takes the newest segment instead of the oldest
ArchivePushEvictNewest(queue, n, t) ==
    LET pushed == Append(queue, [n |-> n, t |-> t, len |-> BUFFER_SIZE])
    IN  IF Len(pushed) > MAX_ARCHIVE_SEGMENTS
        THEN SubSeq(pushed, 1, Len(pushed) - 1)
        ELSE pushed

\* ARCHIVE_QUEUE.push({samples, t: Date.now()}) and the eviction that follows
ArchivePush(queue, n, t) ==
    LET pushed == Append(queue, [n |-> n, t |-> t, len |-> BUFFER_SIZE])
    IN  IF Len(pushed) > MAX_ARCHIVE_SEGMENTS THEN Tail(pushed) ELSE pushed

\* -------------------------------------------------------- playRandomSoraMimi
\* mutant: a segment recorded exactly EXCLUDE_RECENT_MS ago is kept
IsCandidateInclusive(seg, t) ==
    /\ seg.t # 0
    /\ (t - seg.t) >= EXCLUDE_RECENT_MS

\* the test of the candidate loop on one segment: a segment without a
\* timestamp is skipped, one recorded more than EXCLUDE_RECENT_MS ago is kept
IsCandidate(seg, t) ==
    /\ seg.t # 0
    /\ (t - seg.t) > EXCLUDE_RECENT_MS

\* the loop that collects the candidate indices (0-based), in index order
CandidateIndices(queue, t) ==
    SelectSeq([i \in 1..Len(queue) |-> i - 1],
              LAMBDA i : IsCandidate(queue[i + 1], t))

\* mutant: the fallback rounds the draw up
StartIndexRoundedUp(cands, segmentCount, k) ==
    IF Len(cands) = 0
    THEN FloorRandom(k, segmentCount) + 1
    ELSE cands[FloorRandom(k, Len(cands)) + 1]

\* startIndex for the draw k / RandDen
StartIndex(cands, segmentCount, k) ==
    IF Len(cands) = 0
    THEN FloorRandom(k, segmentCount)
    ELSE cands[FloorRandom(k, Len(cands)) + 1]

\* durationSec * RandDen for the draw k / RandDen
DurationNum(k) == SEGMENT_MIN_SEC * RandDen + k * (SEGMENT_MAX_SEC - SEGMENT_MIN_SEC)

\* mutant: the length is not quantized to whole blocks
SegmentLengthUnquantized(k, sampleRate) ==
    (DurationNum(k) * sampleRate) \div RandDen

\* Math.round(durationSec * sampleRate / BUFFER_SIZE) * BUFFER_SIZE
SegmentLength(k, sampleRate) ==
    MathRound(DurationNum(k) * sampleRate, RandDen * BUFFER_SIZE) * BUFFER_SIZE

\* the copy loop: the segments copied, in order, and the final offset
RECURSIVE CopyLoop(_, _, _, _, _, _)
CopyLoop(queue, startIndex, segmentLength, i, offset, out) ==
    IF ~(offset < segmentLength /\ i < Len(queue))
    THEN [offset |-> offset, out |-> out]
    ELSE LET seg == queue[((startIndex + i) % Len(queue)) + 1]
             copyLength == Min(Min(BUFFER_SIZE, segmentLength - offset), seg.len)
         IN  CopyLoop(queue, startIndex, segmentLength, i + 1,
                      offset + copyLength,
                      Append(out, [n |-> seg.n, t |-> seg.t,
                                   index |-> (startIndex + i) % Len(queue),
                                   len |-> copyLength]))

\* mutant: the guard does not look at the archive
PlayGuardContextOnly == ContextRunning

\* the guard at the head of playRandomSoraMimi
PlayGuard == ContextRunning /\ Len(ARCHIVE_QUEUE) # 0

\* the monitoring path is (re)connected when the flag is down and both nodes
\* exist; connecting nodes of another context throws and is caught
MonitoringAfterPlay ==
    IF ~monitoringConnected /\ mediaStreamSource # 0 /\ monitoringGain # 0
    THEN monitoringGain = audioContext
    ELSE monitoringConnected

\* mutant: the copy loop lacks the bound i < segmentCount; it stops only
\* when the fragment is full and wraps around the archive as often as that
\* takes
SelectionWrapsUntilFull(kStart, kDur) ==
    LET segmentCount == Len(ARCHIVE_QUEUE)
        cands == CandidateIndices(ARCHIVE_QUEUE, now)
        startIndex == StartIndex(cands, segmentCount, kStart)
        sampleRate == contexts[audioContext].sampleRate
        segmentLength == SegmentLength(kDur, sampleRate)
        rounds == (segmentLength \div BUFFER_SIZE) + 1
        loop[i \in 0..rounds] ==
            IF i = 0 THEN [offset |-> 0, out |-> << >>]
            ELSE LET prev == loop[i - 1]
                     index == (startIndex + i - 1) % segmentCount
                     seg == ARCHIVE_QUEUE[index + 1]
                     copyLength == Min(Min(BUFFER_SIZE,
                                           segmentLength - prev.offset), seg.len)
                 IN  IF ~(prev.offset < segmentLength) THEN prev
                     ELSE [offset |-> prev.offset + copyLength,
                           out |-> Append(prev.out,
                                          [n |-> seg.n, t |-> seg.t,
                                           index |-> index, len |-> copyLength])]
        copy == loop[rounds]
    IN  [ played |-> TRUE, at |-> now, segmentCount |-> segmentCount,
          candidates |-> cands, startIndex |-> startIndex,
          relaxed |-> (Len(cands) = 0), kDur |-> kDur,
          sampleRate |-> sampleRate, segmentLength |-> segmentLength,
          copied |-> copy.offset, fragment |-> copy.out ]

\* what one call of playRandomSoraMimi computes, for the draws kStart and kDur
Selection(kStart, kDur) ==
    LET segmentCount == Len(ARCHIVE_QUEUE)
        cands == CandidateIndices(ARCHIVE_QUEUE, now)
        startIndex == StartIndex(cands, segmentCount, kStart)
        sampleRate == contexts[audioContext].sampleRate
        segmentLength == SegmentLength(kDur, sampleRate)
        copy == CopyLoop(ARCHIVE_QUEUE, startIndex, segmentLength, 0, 0, << >>)
    IN  [ played |-> TRUE, at |-> now, segmentCount |-> segmentCount,
          candidates |-> cands, startIndex |-> startIndex,
          relaxed |-> (Len(cands) = 0), kDur |-> kDur,
          sampleRate |-> sampleRate, segmentLength |-> segmentLength,
          copied |-> copy.offset, fragment |-> copy.out ]

\* the chain of one invocation: source -> filter -> panner -> gain -> destination
NewPlay(sel) ==
    [ id |-> nPlays + 1, ctx |-> audioContext, fragment |-> sel.fragment,
      endsAt |-> now + ((sel.segmentLength * 1000) \div sel.sampleRate),
      connected |-> {"source", "filter", "panner", "gain"}, ended |-> FALSE ]

\* playRandomSoraMimi(); fail: a node-creation call throws
playRandomSoraMimi(kStart, kDur, fail) ==
    IF ~PlayGuard
    THEN /\ lastPlay' = [ played |-> FALSE, skipped |-> TRUE ]
         /\ UNCHANGED << monitoringConnected, soraMimiStatus,
                         recordingDotSora, plays, nPlays, lastPlayAt,
                         nEvents >>
    ELSE LET sel == Selection(kStart, kDur)
         IN  /\ nEvents < MaxEvents
             /\ nEvents' = nEvents + 1
             /\ monitoringConnected' = MonitoringAfterPlay
             /\ soraMimiStatus' = "occurring"
             /\ lastPlay' = [sel EXCEPT !.played = TRUE] @@ [ started |-> ~fail ]
             /\ IF fail
                THEN UNCHANGED << recordingDotSora, plays >>
                ELSE /\ recordingDotSora' = TRUE
                     /\ plays' = plays \cup {NewPlay(sel)}
             /\ nPlays' = nPlays + 1
             /\ lastPlayAt' = now

\* no call of playRandomSoraMimi in this step
NoPlayCall ==
    /\ lastPlay' = NoPlay
    /\ UNCHANGED << plays, nPlays, lastPlayAt >>

\* ------------------------------------------------------- the trigger timers
\* mutant: the armed interval is not cancelled
StartRandomTriggerNoClear(handle, ivs, tos, period, t) ==
    LET id == NewTimerId(ivs, tos)
    IN  [ handle |-> id,
          intervals |-> ivs \cup
                        {[ id |-> id, period |-> period, due |-> t + period ]} ]

\* startRandomTrigger(): cancel the armed interval, arm one with the period
StartRandomTrigger(handle, ivs, tos, period, t) ==
    LET cleared == IF handle # 0 THEN ClearTimer(ivs, handle) ELSE ivs
        id == NewTimerId(cleared, tos)
    IN  [ handle |-> id,
          intervals |-> cleared \cup
                        {[ id |-> id, period |-> period, due |-> t + period ]} ]

\* nextMs of scheduleNextGuaranteedTrigger for the draw k / RandDen
NextMs(isFirst, k) ==
    IF isFirst
    THEN FloorRandom(k, FIRST_GUARANTEE_SPAN) + GUARANTEE_BASE
    ELSE FloorRandom(k, GUARANTEE_SPAN) + GUARANTEE_BASE

\* scheduleNextGuaranteedTrigger(isFirst): cancel the armed timeout, arm one
ScheduleNextGuaranteedTrigger(handle, ivs, tos, isFirst, k, t) ==
    LET cleared == IF handle # 0 THEN ClearTimer(tos, handle) ELSE tos
        id == NewTimerId(ivs, cleared)
        nextMs == NextMs(isFirst, k)
    IN  [ handle |-> id,
          timeouts |-> cleared \cup
                       {[ id |-> id, delay |-> nextMs, due |-> t + nextMs,
                          first |-> isFirst ]} ]

\* mutant: the probability is divided by 100 a second time
TriggerCheckPercentTwice(k) ==
    /\ k * 100 * 100 < TRIGGER_PROBABILITY * RandDen
    /\ Len(ARCHIVE_QUEUE) > MIN_ARCHIVE_FOR_TRIGGER

\* mutant: a draw equal to the probability triggers
TriggerCheckInclusive(k) ==
    /\ k * 100 <= TRIGGER_PROBABILITY * RandDen
    /\ Len(ARCHIVE_QUEUE) > MIN_ARCHIVE_FOR_TRIGGER

\* the probabilistic check of one interval tick, for the draw k / RandDen
TriggerCheck(k) ==
    /\ k * 100 < TRIGGER_PROBABILITY * RandDen
    /\ Len(ARCHIVE_QUEUE) > MIN_ARCHIVE_FOR_TRIGGER

\* the guard of the guarantee callback
GuaranteeGuard == ContextRunning /\ Len(ARCHIVE_QUEUE) > 0

\* ------------------------------------------------------------- stopSoramimi
\* the synchronous part of stopSoramimi(); strm and live are the stream
\* reference and the live streams at the call
stopSoramimi(strm, live) ==
    /\ intervals' = IF randomTriggerInterval # 0
                    THEN ClearTimer(intervals, randomTriggerInterval)
                    ELSE intervals
    /\ randomTriggerInterval' = 0
    /\ timeouts' = IF guaranteeTimer # 0
                   THEN ClearTimer(timeouts, guaranteeTimer)
                   ELSE timeouts
    /\ guaranteeTimer' = 0
    /\ liveStreams' = IF strm # 0 THEN live \ {strm} ELSE live
    /\ stream' = 0
    /\ contexts' = IF audioContext # 0 /\ contexts[audioContext].state # "closed"
                   THEN [contexts EXCEPT ![audioContext].closing = TRUE]
                   ELSE contexts
    /\ stoppedSince' = TRUE
    /\ stopMark' = captured

\* ------------------------------------------------------------------- Init
Init ==
    /\ now = Epoch
    /\ audioContext = 0
    /\ contexts = [c \in CtxIds |-> NoContext]
    /\ nextCtx = 0
    /\ micPending = {}
    /\ stream = 0
    /\ liveStreams = {}
    /\ mediaStreamSource = 0
    /\ scriptProcessorNode = 0
    /\ monitoringGain = 0
    /\ monitoringConnected = FALSE
    /\ randomTriggerInterval = 0
    /\ guaranteeTimer = 0
    /\ intervals = {}
    /\ timeouts = {}
    /\ ARCHIVE_QUEUE = << >>
    /\ TRIGGER_CHECK_INTERVAL = INITIAL_CHECK_INTERVAL
    /\ TRIGGER_PROBABILITY = INITIAL_PROBABILITY
    /\ plays = {}
    /\ startDisabled = FALSE
    /\ stopDisabled = TRUE
    /\ soraMimiStatus = "none"
    /\ recordingDotSora = FALSE
    /\ lastOp = "none"
    /\ lastPlay = NoPlay
    /\ captured = 0
    /\ nPlays = 0
    /\ stoppedSince = FALSE
    /\ stopMark = 0
    /\ lastDraw = -1
    /\ lastPlayAt = 0
    /\ nEvents = 0

\* ---------------------------------------------------------------- actions
\* the capture callback of a processor of context c, at time t
ArchiveAudioAt(c, t) ==
    /\ contexts[c].processors > 0
    /\ contexts[c].state = "running"
    /\ ARCHIVE_QUEUE' = ArchivePush(ARCHIVE_QUEUE, captured + 1, t)
    /\ captured' = captured + 1
    /\ nEvents' = nEvents + 1
    /\ lastOp' = "none"
    /\ lastDraw' = -1
    /\ NoPlayCall
    /\ UNCHANGED << audioContext, contexts, nextCtx, micPending, stream,
                    liveStreams, mediaStreamSource, scriptProcessorNode,
                    monitoringGain, monitoringConnected,
                    randomTriggerInterval, guaranteeTimer, intervals,
                    timeouts, TRIGGER_CHECK_INTERVAL, TRIGGER_PROBABILITY,
                    startDisabled, stopDisabled, soraMimiStatus,
                    recordingDotSora, stoppedSince, stopMark >>

archiveAudio(c) ==
    /\ nEvents < MaxEvents
    /\ ArchiveAudioAt(c, now)
    /\ UNCHANGED now

\* a call of playRandomSoraMimi with draws from R, duration draws from RD
PlayCall(R, RD) ==
    IF PlayGuard
    THEN \E kStart \in R, kDur \in RD, fail \in BOOLEAN :
            playRandomSoraMimi(kStart, kDur, fail)
    ELSE playRandomSoraMimi(0, 0, FALSE)

\* no call of playRandomSoraMimi and nothing it writes changes
NoPlayEffect ==
    /\ NoPlayCall
    /\ UNCHANGED << monitoringConnected, soraMimiStatus, recordingDotSora,
                    nEvents >>

\* click on the start button
startSoramimi(sampleRate) ==
    /\ ~startDisabled
    /\ lastOp' = "none"
    /\ lastDraw' = -1
    /\ NoPlayCall
    /\ UNCHANGED << monitoringConnected, soraMimiStatus, recordingDotSora >>
    /\ IF ContextRunning
       THEN UNCHANGED << audioContext, contexts, nextCtx, micPending,
                         stoppedSince, stopMark, nEvents >>
       ELSE /\ nEvents < MaxEvents
            /\ nEvents' = nEvents + 1
            /\ nextCtx' = nextCtx + 1
            /\ audioContext' = nextCtx + 1
            /\ contexts' = [contexts EXCEPT ![nextCtx + 1] =
                              [ state |-> "suspended", closing |-> FALSE,
                                sampleRate |-> sampleRate, processors |-> 0 ]]
            /\ micPending' = micPending \cup {nextCtx + 1}
            /\ stoppedSince' = FALSE
            /\ UNCHANGED stopMark
    /\ UNCHANGED << now, stream, liveStreams, mediaStreamSource,
                    scriptProcessorNode, monitoringGain,
                    randomTriggerInterval, guaranteeTimer, intervals,
                    timeouts, ARCHIVE_QUEUE, TRIGGER_CHECK_INTERVAL,
                    TRIGGER_PROBABILITY, startDisabled, stopDisabled,
                    captured >>

\* the platform starts the rendering of a resumed context
ContextStarts(c) ==
    /\ contexts[c].state = "suspended"
    /\ ~contexts[c].closing
    /\ contexts' = [contexts EXCEPT ![c].state = "running"]
    /\ lastOp' = "none"
    /\ lastDraw' = -1
    /\ NoPlayEffect
    /\ UNCHANGED << now, audioContext, nextCtx, micPending, stream,
                    liveStreams, mediaStreamSource, scriptProcessorNode,
                    monitoringGain, randomTriggerInterval, guaranteeTimer,
                    intervals, timeouts, ARCHIVE_QUEUE,
                    TRIGGER_CHECK_INTERVAL, TRIGGER_PROBABILITY,
                    startDisabled, stopDisabled, captured, stoppedSince, stopMark >>

\* getUserMedia of request r resolves: the .then callback of startSoramimi;
\* with audioContext already null the callback throws after it has stored
\* the stream and the .catch callback runs stopSoramimi
MicGranted(r, R) ==
    /\ r \in micPending
    /\ micPending' = micPending \ {r}
    /\ NoPlayCall
    /\ UNCHANGED << soraMimiStatus, recordingDotSora >>
    /\ IF audioContext = 0
       THEN /\ UNCHANGED monitoringConnected
            /\ stopSoramimi(r, liveStreams \cup {r})
            /\ lastOp' = "none"
            /\ lastDraw' = -1
            /\ UNCHANGED << mediaStreamSource, scriptProcessorNode,
                            monitoringGain, startDisabled, stopDisabled >>
       ELSE /\ stream' = r
            /\ liveStreams' = liveStreams \cup {r}
            /\ monitoringConnected' = TRUE
            /\ mediaStreamSource' = audioContext
            /\ monitoringGain' = audioContext
            /\ scriptProcessorNode' = audioContext
            /\ contexts' = [contexts EXCEPT ![audioContext].processors = @ + 1]
            /\ \E k \in R :
                 LET rt == StartRandomTrigger(randomTriggerInterval, intervals,
                                              timeouts, TRIGGER_CHECK_INTERVAL, now)
                     gt == ScheduleNextGuaranteedTrigger(guaranteeTimer,
                                              rt.intervals, timeouts, TRUE, k, now)
                 IN  /\ randomTriggerInterval' = rt.handle
                     /\ intervals' = rt.intervals
                     /\ guaranteeTimer' = gt.handle
                     /\ timeouts' = gt.timeouts
            /\ startDisabled' = TRUE
            /\ stopDisabled' = FALSE
            /\ lastOp' = "none"
            /\ lastDraw' = -1
            /\ UNCHANGED << stoppedSince, stopMark >>
    /\ UNCHANGED << now, audioContext, nextCtx, ARCHIVE_QUEUE,
                    TRIGGER_CHECK_INTERVAL, TRIGGER_PROBABILITY, captured,
                    nEvents >>

\* getUserMedia of request r is rejected: the .catch callback of startSoramimi
MicDenied(r) ==
    /\ r \in micPending
    /\ micPending' = micPending \ {r}
    /\ stopSoramimi(stream, liveStreams)
    /\ lastOp' = "none"
    /\ lastDraw' = -1
    /\ NoPlayEffect
    /\ UNCHANGED << now, audioContext, nextCtx, mediaStreamSource,
                    scriptProcessorNode, monitoringGain, ARCHIVE_QUEUE,
                    TRIGGER_CHECK_INTERVAL, TRIGGER_PROBABILITY,
                    startDisabled, stopDisabled, captured >>

\* click on the stop button
StopClicked ==
    /\ ~stopDisabled
    /\ stopSoramimi(stream, liveStreams)
    /\ lastOp' = "none"
    /\ lastDraw' = -1
    /\ NoPlayEffect
    /\ UNCHANGED << now, audioContext, nextCtx, micPending,
                    mediaStreamSource, scriptProcessorNode, monitoringGain,
                    ARCHIVE_QUEUE, TRIGGER_CHECK_INTERVAL,
                    TRIGGER_PROBABILITY, startDisabled, stopDisabled,
                    captured >>

\* audioContext.close() of context c resolves: the .then callback of
\* stopSoramimi
CloseResolved(c) ==
    /\ contexts[c].closing
    /\ contexts[c].state # "closed"
    /\ contexts' = [contexts EXCEPT ![c] =
                      [@ EXCEPT !.state = "closed", !.closing = FALSE,
                                !.processors = 0]]
    /\ audioContext' = 0
    /\ mediaStreamSource' = 0
    /\ scriptProcessorNode' = 0
    /\ monitoringConnected' = FALSE
    /\ soraMimiStatus' = "none"
    /\ startDisabled' = FALSE
    /\ stopDisabled' = TRUE
    /\ ARCHIVE_QUEUE' = << >>
    /\ captured' = 0
    /\ stopMark' = 0
    /\ lastOp' = "none"
    /\ lastDraw' = -1
    /\ NoPlayCall
    /\ UNCHANGED << now, nextCtx, micPending, stream, liveStreams,
                    monitoringGain, randomTriggerInterval, guaranteeTimer,
                    intervals, timeouts, TRIGGER_CHECK_INTERVAL,
                    TRIGGER_PROBABILITY, recordingDotSora, stoppedSince,
                    nEvents >>

\* mutant: the callback catches a throw of the playback call and cancels
\* its own timer
IntervalFireCancelsOnThrow(x, R, RD) ==
    /\ x \in intervals
    /\ x.due <= now
    /\ \E k \in R :
         /\ lastDraw' = k
         /\ IF TriggerCheck(k) THEN PlayCall(R, RD) ELSE NoPlayEffect
    /\ IF lastPlay'.played /\ ~lastPlay'.started
       THEN intervals' = intervals \ {x}
       ELSE intervals' = (intervals \ {x}) \cup
                         {[x EXCEPT !.due = x.due + x.period]}
    /\ lastOp' = "intervalFire"
    /\ UNCHANGED << now, audioContext, contexts, nextCtx, micPending, stream,
                    liveStreams, mediaStreamSource, scriptProcessorNode,
                    monitoringGain, randomTriggerInterval, guaranteeTimer,
                    timeouts, ARCHIVE_QUEUE, TRIGGER_CHECK_INTERVAL,
                    TRIGGER_PROBABILITY, startDisabled, stopDisabled,
                    captured, stoppedSince, stopMark >>

\* the interval timer x fires: the callback armed by startRandomTrigger
IntervalFire(x, R, RD) ==
    /\ x \in intervals
    /\ x.due <= now
    /\ intervals' = (intervals \ {x}) \cup {[x EXCEPT !.due = x.due + x.period]}
    /\ \E k \in R :
         /\ lastDraw' = k
         /\ IF TriggerCheck(k) THEN PlayCall(R, RD) ELSE NoPlayEffect
    /\ lastOp' = "intervalFire"
    /\ UNCHANGED << now, audioContext, contexts, nextCtx, micPending, stream,
                    liveStreams, mediaStreamSource, scriptProcessorNode,
                    monitoringGain, randomTriggerInterval, guaranteeTimer,
                    timeouts, ARCHIVE_QUEUE, TRIGGER_CHECK_INTERVAL,
                    TRIGGER_PROBABILITY, startDisabled, stopDisabled,
                    captured, stoppedSince, stopMark >>

\* mutant: the callback reschedules after the playback call, without finally
GuaranteeFireNoFinally(x, R, RD) ==
    /\ x \in timeouts
    /\ x.due <= now
    /\ IF GuaranteeGuard THEN PlayCall(R, RD) ELSE NoPlayEffect
    /\ IF lastPlay'.played /\ ~lastPlay'.started
       THEN /\ timeouts' = timeouts \ {x}
            /\ UNCHANGED guaranteeTimer
       ELSE \E k \in R :
              LET gt == ScheduleNextGuaranteedTrigger(guaranteeTimer, intervals,
                                                      timeouts \ {x}, FALSE, k, now)
              IN  /\ guaranteeTimer' = gt.handle
                  /\ timeouts' = gt.timeouts
    /\ lastOp' = "guaranteeFire"
    /\ lastDraw' = -1
    /\ UNCHANGED << now, audioContext, contexts, nextCtx, micPending, stream,
                    liveStreams, mediaStreamSource, scriptProcessorNode,
                    monitoringGain, randomTriggerInterval, intervals,
                    ARCHIVE_QUEUE, TRIGGER_CHECK_INTERVAL,
                    TRIGGER_PROBABILITY, startDisabled, stopDisabled,
                    captured, stoppedSince, stopMark >>

\* the timeout x fires: the callback armed by scheduleNextGuaranteedTrigger
GuaranteeFire(x, R, RD) ==
    /\ x \in timeouts
    /\ x.due <= now
    /\ IF GuaranteeGuard THEN PlayCall(R, RD) ELSE NoPlayEffect
    /\ \E k \in R :
         LET gt == ScheduleNextGuaranteedTrigger(guaranteeTimer, intervals,
                                                 timeouts \ {x}, FALSE, k, now)
         IN  /\ guaranteeTimer' = gt.handle
             /\ timeouts' = gt.timeouts
    /\ lastOp' = "guaranteeFire"
    /\ lastDraw' = -1
    /\ UNCHANGED << now, audioContext, contexts, nextCtx, micPending, stream,
                    liveStreams, mediaStreamSource, scriptProcessorNode,
                    monitoringGain, randomTriggerInterval, intervals,
                    ARCHIVE_QUEUE, TRIGGER_CHECK_INTERVAL,
                    TRIGGER_PROBABILITY, startDisabled, stopDisabled,
                    captured, stoppedSince, stopMark >>

\* the key 't' is pressed
KeyT(R, RD) ==
    /\ IF ContextRunning THEN PlayCall(R, RD) ELSE NoPlayEffect
    /\ lastOp' = IF ContextRunning THEN "keydown" ELSE "none"
    /\ lastDraw' = -1
    /\ UNCHANGED << now, audioContext, contexts, nextCtx, micPending, stream,
                    liveStreams, mediaStreamSource, scriptProcessorNode,
                    monitoringGain, randomTriggerInterval, guaranteeTimer,
                    intervals, timeouts, ARCHIVE_QUEUE,
                    TRIGGER_CHECK_INTERVAL, TRIGGER_PROBABILITY,
                    startDisabled, stopDisabled, captured, stoppedSince, stopMark >>

\* mutant: the nodes of the chain are shared, so the completion callback
\* disconnects them for every invocation
EndedDisconnectsShared(p) ==
    /\ p \in plays
    /\ ~p.ended
    /\ contexts[p.ctx].state = "running"
    /\ p.endsAt <= now
    /\ plays' = {[q EXCEPT !.ended = (q.ended \/ q = p),
                           !.connected = @ \ {"source", "filter", "panner"}] :
                 q \in plays}
    /\ recordingDotSora' = FALSE
    /\ soraMimiStatus' = "none"
    /\ lastOp' = "onended"
    /\ lastDraw' = -1
    /\ lastPlay' = NoPlay
    /\ UNCHANGED << now, audioContext, contexts, nextCtx, micPending, stream,
                    liveStreams, mediaStreamSource, scriptProcessorNode,
                    monitoringGain, monitoringConnected,
                    randomTriggerInterval, guaranteeTimer, intervals,
                    timeouts, ARCHIVE_QUEUE, TRIGGER_CHECK_INTERVAL,
                    TRIGGER_PROBABILITY, startDisabled, stopDisabled,
                    captured, nPlays, lastPlayAt, stoppedSince, stopMark,
                    nEvents >>

\* mutant: the completion callback re-arms the guarantee timer
EndedRearmsGuarantee(p) ==
    /\ p \in plays
    /\ ~p.ended
    /\ contexts[p.ctx].state = "running"
    /\ p.endsAt <= now
    /\ plays' = (plays \ {p}) \cup
                {[p EXCEPT !.ended = TRUE,
                           !.connected = @ \ {"source", "filter", "panner"}]}
    /\ recordingDotSora' = FALSE
    /\ soraMimiStatus' = "none"
    /\ lastOp' = "onended"
    /\ lastDraw' = -1
    /\ lastPlay' = NoPlay
    /\ \E k \in RandomValues :
         LET armed == ScheduleNextGuaranteedTrigger(guaranteeTimer, intervals,
                                                   timeouts, FALSE, k, now)
         IN  /\ guaranteeTimer' = armed.handle
             /\ timeouts' = armed.timeouts
    /\ UNCHANGED << now, audioContext, contexts, nextCtx, micPending, stream,
                    liveStreams, mediaStreamSource, scriptProcessorNode,
                    monitoringGain, monitoringConnected,
                    randomTriggerInterval, intervals,
                    ARCHIVE_QUEUE, TRIGGER_CHECK_INTERVAL,
                    TRIGGER_PROBABILITY, startDisabled, stopDisabled,
                    captured, nPlays, lastPlayAt, stoppedSince, stopMark,
                    nEvents >>

\* the fragment of invocation p has been played: its onended callback
Ended(p) ==
    /\ p \in plays
    /\ ~p.ended
    /\ contexts[p.ctx].state = "running"
    /\ p.endsAt <= now
    /\ plays' = (plays \ {p}) \cup
                {[p EXCEPT !.ended = TRUE,
                           !.connected = @ \ {"source", "filter", "panner"}]}
    /\ recordingDotSora' = FALSE
    /\ soraMimiStatus' = "none"
    /\ lastOp' = "onended"
    /\ lastDraw' = -1
    /\ lastPlay' = NoPlay
    /\ UNCHANGED << now, audioContext, contexts, nextCtx, micPending, stream,
                    liveStreams, mediaStreamSource, scriptProcessorNode,
                    monitoringGain, monitoringConnected,
                    randomTriggerInterval, guaranteeTimer, intervals,
                    timeouts, ARCHIVE_QUEUE, TRIGGER_CHECK_INTERVAL,
                    TRIGGER_PROBABILITY, startDisabled, stopDisabled,
                    captured, nPlays, lastPlayAt, stoppedSince, stopMark,
                    nEvents >>

\* mutant: the percent value is stored without the division by 100
ProbabilityOfUnscaled(v) == v * 100

\* Number(value) / 100 for the slider value v, in hundredths
ProbabilityOf(v) == (v * 100) \div 100

\* the probability slider delivers v percent
ProbabilityInput(v) ==
    /\ nEvents < MaxEvents
    /\ nEvents' = nEvents + 1
    /\ TRIGGER_PROBABILITY' = ProbabilityOf(v)
    /\ lastOp' = "none"
    /\ lastDraw' = -1
    /\ NoPlayCall
    /\ UNCHANGED << monitoringConnected, soraMimiStatus, recordingDotSora >>
    /\ UNCHANGED << now, audioContext, contexts, nextCtx, micPending, stream,
                    liveStreams, mediaStreamSource, scriptProcessorNode,
                    monitoringGain, randomTriggerInterval, guaranteeTimer,
                    intervals, timeouts, ARCHIVE_QUEUE,
                    TRIGGER_CHECK_INTERVAL, startDisabled, stopDisabled,
                    captured, stoppedSince, stopMark >>

\* mutant: the floor of the milliseconds without the lower limit
CheckIntervalOfUnclamped(input) ==
    LET micro == IF input.nan \/ input.micro = 0 THEN 1000000 ELSE input.micro
    IN  micro \div 1000

\* Math.max(1000, Math.floor((Number(value) || 1) * 1000))
CheckIntervalOf(input) ==
    LET micro == IF input.nan \/ input.micro = 0 THEN 1000000 ELSE input.micro
    IN  Max(MIN_CHECK_INTERVAL, micro \div 1000)

\* the interval input delivers a value
IntervalChange(input) ==
    /\ nEvents < MaxEvents
    /\ nEvents' = nEvents + 1
    /\ TRIGGER_CHECK_INTERVAL' = CheckIntervalOf(input)
    /\ IF ContextRunning
       THEN LET rt == StartRandomTrigger(randomTriggerInterval, intervals,
                                         timeouts, CheckIntervalOf(input), now)
            IN  /\ randomTriggerInterval' = rt.handle
                /\ intervals' = rt.intervals
       ELSE UNCHANGED << randomTriggerInterval, intervals >>
    /\ lastOp' = "none"
    /\ lastDraw' = -1
    /\ NoPlayCall
    /\ UNCHANGED << monitoringConnected, soraMimiStatus, recordingDotSora >>
    /\ UNCHANGED << now, audioContext, contexts, nextCtx, micPending, stream,
                    liveStreams, mediaStreamSource, scriptProcessorNode,
                    monitoringGain, guaranteeTimer, timeouts, ARCHIVE_QUEUE,
                    TRIGGER_PROBABILITY, startDisabled, stopDisabled,
                    captured, stoppedSince, stopMark >>

\* the clock advances by d ms up to the horizon; no armed timer is overrun
TickWithin(d, horizon) ==
    /\ d > 0
    /\ now + d <= Epoch + horizon
    /\ \A due \in TimerDues : now + d <= due
    /\ now' = now + d
    /\ lastOp' = "none"
    /\ lastDraw' = -1
    /\ NoPlayEffect
    /\ UNCHANGED << audioContext, contexts, nextCtx, micPending, stream,
                    liveStreams, mediaStreamSource, scriptProcessorNode,
                    monitoringGain, randomTriggerInterval, guaranteeTimer,
                    intervals, timeouts, ARCHIVE_QUEUE,
                    TRIGGER_CHECK_INTERVAL, TRIGGER_PROBABILITY,
                    startDisabled, stopDisabled, captured, stoppedSince, stopMark >>

Tick(d) == TickWithin(d, MaxElapsed)

\* ----------------------------------------------------------- specification
Next ==
    \/ \E c \in CtxIds : archiveAudio(c)
    \/ \E sr \in SampleRates : startSoramimi(sr)
    \/ \E c \in CtxIds : ContextStarts(c)
    \/ \E r \in micPending : MicGranted(r, RandomValues)
    \/ \E r \in micPending : MicDenied(r)
    \/ StopClicked
    \/ \E c \in CtxIds : CloseResolved(c)
    \/ \E x \in intervals : IntervalFire(x, RandomValues, DurationValues)
    \/ \E x \in timeouts : GuaranteeFire(x, RandomValues, DurationValues)
    \/ KeyT(RandomValues, DurationValues)
    \/ \E p \in plays : Ended(p)
    \/ \E v \in ProbabilityInputs : ProbabilityInput(v)
    \/ \E input \in IntervalInputs : IntervalChange(input)
    \/ \E d \in TickSteps \cup {due - now : due \in TimerDues} : Tick(d)

Spec == Init /\ [][Next]_vars

\* ------------------------------------------------ a session that has run
\* A capturing session that was started size * BlockMs ago and has archived
\* one segment every BlockMs since; no trigger has played anything yet.  The
\* interval timer has its initial period and the guarantee timeout still
\* waits for its first fire, armed with the draw (RandDen - 1) / RandDen.
WarmSizes == {MIN_ARCHIVE_FOR_TRIGGER + 1, MAX_ARCHIVE_SEGMENTS}

WarmArchive(size) ==
    [i \in 1..size |-> [ n |-> i, t |-> Epoch - (size - i) * BlockMs,
                         len |-> BUFFER_SIZE ]]

InitRunning(size, sampleRate) ==
    LET started == Epoch - size * BlockMs
        elapsed == Epoch - started
        periods == (elapsed + INITIAL_CHECK_INTERVAL - 1) \div INITIAL_CHECK_INTERVAL
        firstMs == NextMs(TRUE, RandDen - 1)
    IN
    /\ now = Epoch
    /\ audioContext = 1
    /\ contexts = [c \in CtxIds |->
                     IF c = 1
                     THEN [ state |-> "running", closing |-> FALSE,
                            sampleRate |-> sampleRate, processors |-> 1 ]
                     ELSE NoContext]
    /\ nextCtx = 1
    /\ micPending = {}
    /\ stream = 1
    /\ liveStreams = {1}
    /\ mediaStreamSource = 1
    /\ scriptProcessorNode = 1
    /\ monitoringGain = 1
    /\ monitoringConnected = TRUE
    /\ randomTriggerInterval = 1
    /\ guaranteeTimer = 2
    /\ intervals = {[ id |-> 1, period |-> INITIAL_CHECK_INTERVAL,
                      due |-> started + Max(periods, 1) * INITIAL_CHECK_INTERVAL ]}
    /\ timeouts = {[ id |-> 2, delay |-> firstMs, due |-> started + firstMs,
                     first |-> TRUE ]}
    /\ ARCHIVE_QUEUE = WarmArchive(size)
    /\ TRIGGER_CHECK_INTERVAL = INITIAL_CHECK_INTERVAL
    /\ TRIGGER_PROBABILITY = INITIAL_PROBABILITY
    /\ plays = {}
    /\ startDisabled = TRUE
    /\ stopDisabled = FALSE
    /\ soraMimiStatus = "none"
    /\ recordingDotSora = FALSE
    /\ lastOp = "none"
    /\ lastPlay = NoPlay
    /\ captured = size
    /\ nPlays = 0
    /\ stoppedSince = FALSE
    /\ stopMark = 0
    /\ lastDraw = -1
    /\ lastPlayAt = 0
    /\ nEvents = 0

InitWarm == \E size \in WarmSizes, sr \in SampleRates : InitRunning(size, sr)

\* the session runs on until it is stopped; it is not started again
NextWarm ==
    \/ \E c \in CtxIds : archiveAudio(c)
    \/ StopClicked
    \/ \E c \in CtxIds : CloseResolved(c)
    \/ \E x \in intervals : IntervalFire(x, RandomValues, DurationValues)
    \/ \E x \in timeouts : GuaranteeFire(x, RandomValues, DurationValues)
    \/ KeyT(RandomValues, DurationValues)
    \/ \E p \in plays : Ended(p)
    \/ \E v \in ProbabilityInputs : ProbabilityInput(v)
    \/ \E d \in TickSteps \cup {due - now : due \in TimerDues} : Tick(d)

SpecWarm == InitWarm /\ [][NextWarm]_vars

\* ------------------------------------------- the capture callback on its own
AppendRuns == 401     \* capture callbacks of the append run

InitAppend == InitRunning(0, 44100)

\* the capture callback runs BlockMs after the previous one
CaptureAtCadence(c) ==
    /\ captured < AppendRuns
    /\ now' = now + BlockMs
    /\ ArchiveAudioAt(c, now + BlockMs)

NextAppend == \E c \in CtxIds : CaptureAtCadence(c)

SpecAppend == InitAppend /\ [][NextAppend]_vars

\* --------------------------------------------- one playback, every draw
InitDense == \E sr \in AllSampleRates : InitRunning(MIN_ARCHIVE_FOR_TRIGGER + 1, sr)

\* the first playback of the session, by the key handler
FirstKeyT ==
    /\ nPlays = 0
    /\ KeyT({0}, DenseRandomValues)

NextDense == FirstKeyT

SpecDense == InitDense /\ [][NextDense]_vars

\* ------------------------------------- the interval input, every kind of value
\* values of the interval input, seconds * 10^6: negative, zero, fractions
\* below and above one second, whole seconds, and a non-numeric value
AllIntervalInputs ==
    { [nan |-> FALSE, micro |-> m] :
        m \in {-3000000, -1500500, -1, 0, 1, 400, 999999, 1000000, 1000001,
               1500500, 2000000, 3999999} }
    \cup { [nan |-> TRUE, micro |-> 0] }

\* every value of the probability slider: whole percents from 0 to 100
AllProbabilityInputs == 0..100

\* archives at the threshold of the probabilistic trigger, just above it,
\* and of more than 50 segments
ConfigSizes == {MIN_ARCHIVE_FOR_TRIGGER, MIN_ARCHIVE_FOR_TRIGGER + 1, 51}

InitConfig == \E size \in ConfigSizes : InitRunning(size, 44100)

\* only the two configuration inputs, the interval timer and the clock act
NextConfig ==
    \/ \E input \in AllIntervalInputs : IntervalChange(input)
    \/ \E v \in AllProbabilityInputs : ProbabilityInput(v)
    \/ \E x \in intervals : IntervalFire(x, RandomValues, DurationValues)
    \/ \E d \in TickSteps \cup {due - now : due \in TimerDues} : Tick(d)

SpecConfig == InitConfig /\ [][NextConfig]_vars

\* ------------------------------------------- the timers over a long run
LongElapsed == 100000  \* horizon of the clock of the long run, ms after Epoch

InitLong == InitRunning(MIN_ARCHIVE_FOR_TRIGGER + 1, 44100)

\* the session keeps running; only the timers, the probability slider and
\* the ends of the fragments act, and the clock moves from one due time to
\* the next
NextLong ==
    \/ \E x \in intervals : IntervalFire(x, RandomValues, DurationValues)
    \/ \E x \in timeouts : GuaranteeFire(x, RandomValues, DurationValues)
    \/ \E p \in plays : Ended(p)
    \/ ProbabilityInput(0)
    \/ \E d \in {due - now : due \in TimerDues} : TickWithin(d, LongElapsed)

SpecLong == InitLong /\ [][NextLong]_vars

\* ------------------------------- a capturing context that outlived its close
\* The state after: start; getUserMedia rejected, so stopSoramimi begins to
\* close context 1; start again while context 1 is still suspended, which
\* creates context 2; getUserMedia resolves and context 2 starts; the close
\* of context 1 resolves and resets the globals; the processor of context 2
\* archives one segment.  ev is the number of events counted so far.
OrphanedSession(ev) ==
    /\ now = Epoch
    /\ audioContext = 0
    /\ contexts = [c \in CtxIds |->
                     CASE c = 1 -> [ state |-> "closed", closing |-> FALSE,
                                     sampleRate |-> 44100, processors |-> 0 ]
                       [] c = 2 -> [ state |-> "running", closing |-> FALSE,
                                     sampleRate |-> 44100, processors |-> 1 ]
                       [] OTHER -> NoContext]
    /\ nextCtx = 2
    /\ micPending = {}
    /\ stream = 2
    /\ liveStreams = {2}
    /\ mediaStreamSource = 0
    /\ scriptProcessorNode = 0
    /\ monitoringGain = 2
    /\ monitoringConnected = FALSE
    /\ randomTriggerInterval = 1
    /\ guaranteeTimer = 2
    /\ intervals = {[ id |-> 1, period |-> INITIAL_CHECK_INTERVAL,
                      due |-> Epoch + INITIAL_CHECK_INTERVAL ]}
    /\ timeouts = {[ id |-> 2, delay |-> NextMs(TRUE, RandDen - 1),
                     due |-> Epoch + NextMs(TRUE, RandDen - 1), first |-> TRUE ]}
    /\ ARCHIVE_QUEUE = ArchivePush(<< >>, 1, Epoch)
    /\ TRIGGER_CHECK_INTERVAL = INITIAL_CHECK_INTERVAL
    /\ TRIGGER_PROBABILITY = INITIAL_PROBABILITY
    /\ plays = {}
    /\ startDisabled = FALSE
    /\ stopDisabled = TRUE
    /\ soraMimiStatus = "none"
    /\ recordingDotSora = FALSE
    /\ lastOp = "none"
    /\ lastPlay = NoPlay
    /\ captured = 1
    /\ nPlays = 0
    /\ stoppedSince = FALSE
    /\ stopMark = 0
    /\ lastDraw = -1
    /\ lastPlayAt = 0
    /\ nEvents = ev

InitOrphan == OrphanedSession(0)

SpecOrphan == InitOrphan /\ [][Next]_vars

\* ================================================================== claims

\* C1: after every capture callback, in any interleaving with timer fires,
\* playbacks and stops, the archive holds at most MAX_ARCHIVE_SEGMENTS
\* segments.
C1_ArchiveBounded == Len(ARCHIVE_QUEUE) <= MAX_ARCHIVE_SEGMENTS

\* a capture callback has run on a full archive and evicted a segment
C1_Witness ==
    /\ Len(ARCHIVE_QUEUE) = MAX_ARCHIVE_SEGMENTS
    /\ captured > MAX_ARCHIVE_SEGMENTS
    /\ ARCHIVE_QUEUE[Len(ARCHIVE_QUEUE)].n = captured

\* C2: after n capture callbacks the archive is the last
\* min(n, MAX_ARCHIVE_SEGMENTS) captured segments in capture order, without
\* gaps, with non-decreasing timestamps; after MAX_ARCHIVE_SEGMENTS + 1
\* appends the first segment is gone; after 400 appends the size is 300 and
\* index 0 holds the segment appended as number 100 (counting from 0).
C2_ArchiveIsMostRecent ==
    LET size == Min(captured, MAX_ARCHIVE_SEGMENTS)
    IN  /\ Len(ARCHIVE_QUEUE) = size
        /\ \A i \in 1..size : ARCHIVE_QUEUE[i].n = captured - size + i
        /\ \A i \in 1..(size - 1) : ARCHIVE_QUEUE[i].t <= ARCHIVE_QUEUE[i + 1].t
        /\ captured = MAX_ARCHIVE_SEGMENTS + 1 =>
              \A i \in 1..size : ARCHIVE_QUEUE[i].n # 1
        /\ captured = 400 =>
              /\ Len(ARCHIVE_QUEUE) = 300
              /\ ARCHIVE_QUEUE[1].n = 100 + 1

\* 400 segments have been appended
C2_Witness == captured = 400 /\ Len(ARCHIVE_QUEUE) = MAX_ARCHIVE_SEGMENTS

\* the set of the candidate indices of the last playRandomSoraMimi
LastCandidates == {lastPlay.candidates[j] : j \in 1..Len(lastPlay.candidates)}

\* C3: the candidate set computed at time now is exactly the set of archive
\* indices i with now - capturedAt(i) > EXCLUDE_RECENT_MS; a segment
\* captured exactly EXCLUDE_RECENT_MS ago is excluded.
C3_CandidatesExact ==
    lastPlay.played =>
        /\ LastCandidates =
              {i \in 0..(Len(ARCHIVE_QUEUE) - 1) :
                  lastPlay.at - ARCHIVE_QUEUE[i + 1].t > EXCLUDE_RECENT_MS}
        /\ \A i \in 0..(Len(ARCHIVE_QUEUE) - 1) :
              lastPlay.at - ARCHIVE_QUEUE[i + 1].t = EXCLUDE_RECENT_MS
                 => i \notin LastCandidates

\* a selection on an archive with an older segment, a newer segment and a
\* segment captured exactly EXCLUDE_RECENT_MS before
C3_Witness ==
    /\ lastPlay.played
    /\ \E i \in 1..Len(ARCHIVE_QUEUE) :
          lastPlay.at - ARCHIVE_QUEUE[i].t = EXCLUDE_RECENT_MS
    /\ \E i \in 1..Len(ARCHIVE_QUEUE) :
          lastPlay.at - ARCHIVE_QUEUE[i].t > EXCLUDE_RECENT_MS
    /\ \E i \in 1..Len(ARCHIVE_QUEUE) :
          lastPlay.at - ARCHIVE_QUEUE[i].t < EXCLUDE_RECENT_MS
    /\ LastCandidates # {}

\* C4 (as claimed): with a non-empty candidate set the start index is a
\* candidate and no segment captured within the last EXCLUDE_RECENT_MS before
\* the selection is copied into the fragment.
C4_FragmentOnlyPast ==
    (lastPlay.played /\ LastCandidates # {}) =>
        /\ lastPlay.startIndex \in LastCandidates
        /\ \A j \in 1..Len(lastPlay.fragment) :
              lastPlay.at - lastPlay.fragment[j].t > EXCLUDE_RECENT_MS

\* C5: with an empty candidate set and a non-empty archive the start index
\* lies in [0, size()), the relaxed rule is reported, and the fragment is
\* built from the archive and handed to playback.
C5_FallbackSelects ==
    (lastPlay.played /\ LastCandidates = {}) =>
        /\ lastPlay.startIndex \in 0..(Len(ARCHIVE_QUEUE) - 1)
        /\ lastPlay.relaxed
        /\ Len(lastPlay.fragment) >= 1
        /\ lastPlay.copied > 0
        /\ lastPlay.fragment[1].index = lastPlay.startIndex
        /\ \A j \in 1..Len(lastPlay.fragment) :
              /\ lastPlay.fragment[j].index \in 0..(Len(ARCHIVE_QUEUE) - 1)
              /\ lastPlay.fragment[j].n = ARCHIVE_QUEUE[lastPlay.fragment[j].index + 1].n
        /\ lastPlay.started =>
              \E p \in plays : /\ p.id = nPlays
                               /\ ~p.ended
                               /\ p.fragment = lastPlay.fragment

\* a playback started from an archive that lies inside the exclusion window
C5_Witness ==
    /\ lastPlay.played
    /\ LastCandidates = {}
    /\ lastPlay.started
    /\ lastPlay.startIndex = Len(ARCHIVE_QUEUE) - 1

\* C6: for every duration drawn in [SEGMENT_MIN_SEC, SEGMENT_MAX_SEC) and
\* every sample rate, segmentLength is a positive multiple of BUFFER_SIZE and
\* differs from durationSec * sampleRate by less than BUFFER_SIZE.
C6_SegmentLengthQuantized ==
    lastPlay.played =>
        LET target == (SEGMENT_MIN_SEC * RandDen
                       + lastPlay.kDur * (SEGMENT_MAX_SEC - SEGMENT_MIN_SEC))
                      * lastPlay.sampleRate
            scaled == lastPlay.segmentLength * RandDen
        IN  /\ lastPlay.segmentLength > 0
            /\ lastPlay.segmentLength % BUFFER_SIZE = 0
            /\ scaled - target < BUFFER_SIZE * RandDen
            /\ target - scaled < BUFFER_SIZE * RandDen

\* a fragment of the longest duration, whose length had to be rounded
C6_Witness ==
    /\ lastPlay.played
    /\ lastPlay.kDur = RandDen - 1
    /\ lastPlay.segmentLength * RandDen #
          (SEGMENT_MIN_SEC * RandDen
           + lastPlay.kDur * (SEGMENT_MAX_SEC - SEGMENT_MIN_SEC))
          * lastPlay.sampleRate

\* C7 (as claimed): every armed guarantee delay is at least 1000 ms, the
\* first delay after session start is at most 30000 ms and every later
\* delay is at most 60000 ms.
C7_GuaranteeDelayBounds ==
    \A x \in timeouts :
        /\ x.delay >= 1000
        /\ x.first => x.delay <= 30000
        /\ ~x.first => x.delay <= 60000

\* C8: every fire of the guarantee timer has re-armed the guarantee timer
\* when the callback returns, whether or not the guard held and whether or
\* not playRandomSoraMimi threw.
C8_GuaranteeRearmed ==
    lastOp = "guaranteeFire" =>
        /\ guaranteeTimer # 0
        /\ \E x \in timeouts : /\ x.id = guaranteeTimer
                               /\ ~x.first
                               /\ x.due = now + x.delay

\* a guarantee fire whose playRandomSoraMimi threw, and the timer is armed
C8_Witness ==
    /\ lastOp = "guaranteeFire"
    /\ lastPlay.played
    /\ ~lastPlay.started
    /\ \E x \in timeouts : x.id = guaranteeTimer

\* C9: at most one interval timer and at most one guarantee timeout are
\* armed, and an armed timer is the one its handle names.
C9_OneTimerEach ==
    /\ Cardinality(intervals) <= 1
    /\ Cardinality(timeouts) <= 1
    /\ \A x \in intervals : x.id = randomTriggerInterval
    /\ \A x \in timeouts : x.id = guaranteeTimer

\* the scheduler has been started twice on one context and restarted by a
\* change of the check interval
C9_Witness ==
    /\ audioContext # 0
    /\ contexts[audioContext].processors = 2
    /\ Cardinality(intervals) = 1
    /\ Cardinality(timeouts) = 1
    /\ \E x \in intervals : x.period # INITIAL_CHECK_INTERVAL

\* C10 (as claimed): after stopSoramimi has run, and until startSoramimi is
\* called again, neither timer is armed.
C10_NoTimerAfterStop ==
    stoppedSince =>
        /\ randomTriggerInterval = 0
        /\ guaranteeTimer = 0
        /\ intervals = {}
        /\ timeouts = {}

\* C11 (as claimed): no segment captured before a stopSoramimi is still in
\* the archive when a session started after that stop selects a fragment.
C11_NoSegmentOutlivesStop ==
    (lastPlay.played /\ ~stoppedSince) =>
        \A i \in 1..Len(ARCHIVE_QUEUE) : ARCHIVE_QUEUE[i].n > stopMark

\* the orphaned session is a state the program reaches from construction
OrphanedSessionReached == OrphanedSession(MaxEvents)

\* the failure handler of a session whose acquisition never succeeded runs
\* in this step
AcquisitionFails ==
    /\ micPending' # micPending
    /\ micPending' \subseteq micPending
    /\ stream = 0
    /\ stream' = 0
    /\ audioContext # 0
    /\ contexts[audioContext].processors = 0

\* C12 (as claimed): when microphone acquisition fails, neither timer was
\* armed before the failure, and the failure handler leaves both timer
\* handles null and the audio context closing or closed.
C12_FailureNeverStartedScheduler ==
    [][AcquisitionFails =>
          /\ intervals = {}
          /\ timeouts = {}
          /\ randomTriggerInterval' = 0
          /\ guaranteeTimer' = 0
          /\ \/ contexts'[audioContext].closing
             \/ contexts'[audioContext].state = "closed"]_vars

\* C13: a fire of the probabilistic timer draws one value r in [0,1) and
\* calls playRandomSoraMimi if and only if r < triggerProbability and the
\* archive holds more than 10 segments; with triggerProbability 0 it never
\* calls it.
C13_TickCallsPlaybackIff ==
    lastOp = "intervalFire" =>
        /\ lastDraw \in 0..(RandDen - 1)
        /\ (lastPlay # NoPlay) <=>
              /\ lastDraw * 100 < TRIGGER_PROBABILITY * RandDen
              /\ Len(ARCHIVE_QUEUE) > 10
        /\ TRIGGER_PROBABILITY = 0 => lastPlay = NoPlay

\* a tick whose draw 0 is below the probability 0.05 has called playback
C13_Witness ==
    /\ lastOp = "intervalFire"
    /\ lastDraw = 0
    /\ TRIGGER_PROBABILITY = INITIAL_PROBABILITY
    /\ lastPlay # NoPlay
    /\ lastPlay.played

\* C14: with triggerProbability 1.0 and checkIntervalMs 1000, in a session
\* whose audio context is running and whose archive holds more than 50
\* segments, every probabilistic tick, so already the first one after the
\* scheduler is started, invokes a playback.
C14_TickAtFullProbabilityPlays ==
    ( /\ lastOp = "intervalFire"
      /\ TRIGGER_PROBABILITY = 100
      /\ TRIGGER_CHECK_INTERVAL = 1000
      /\ ContextRunning
      /\ Len(ARCHIVE_QUEUE) > 50 ) =>
        /\ lastPlay.played
        /\ lastPlayAt = now

\* the first tick, 1000 ms after the scheduler was restarted with the new
\* interval, has played although its draw was the highest one
C14_Witness ==
    /\ lastOp = "intervalFire"
    /\ TRIGGER_PROBABILITY = 100
    /\ TRIGGER_CHECK_INTERVAL = 1000
    /\ Len(ARCHIVE_QUEUE) > 50
    /\ lastDraw = RandDen - 1
    /\ now = Epoch + 1000
    /\ \E x \in intervals : x.period = 1000 /\ x.due = now + 1000
    /\ lastPlay.played
    /\ lastPlay.started

\* C15 (as claimed): while the audio context is running and the archive is
\* non-empty, no more than 60000 ms pass after a playback invocation without
\* the next one.
C15_SilenceBounded ==
    (ContextRunning /\ Len(ARCHIVE_QUEUE) > 0 /\ lastPlayAt # 0) =>
        now - lastPlayAt <= 60000

\* C16 (as claimed): after onended of an invocation none of the nodes of its
\* chain (buffer source, low-pass filter, stereo panner, replay gain) is
\* still connected.
C16_ChainDisconnected ==
    \A p \in plays : p.ended => p.connected = {}

\* C17 (as claimed): every invocation that has started its fragment gets its
\* teardown, also when stopSoramimi and the close of the audio context come
\* while the fragment is playing: no started invocation is left without its
\* onended in a context that is closed and renders nothing any more.
C17_TeardownNotLost ==
    \A p \in plays : ~p.ended => contexts[p.ctx].state # "closed"

\* the step is a capture append: one segment pushed at the back, at most
\* one segment evicted at the front
IsCaptureAppend ==
    /\ captured' = captured + 1
    /\ Len(ARCHIVE_QUEUE') > 0
    /\ LET seg == ARCHIVE_QUEUE'[Len(ARCHIVE_QUEUE')]
           pushed == Append(ARCHIVE_QUEUE, seg)
       IN  /\ seg.n = captured + 1
           /\ seg.t = now'
           /\ ARCHIVE_QUEUE' \in {pushed, Tail(pushed)}

\* the step is the clear of the archive when a close completes
IsClearAtClose ==
    /\ ARCHIVE_QUEUE' = << >>
    /\ \E c \in CtxIds : contexts[c].closing /\ contexts'[c].state = "closed"

\* the step runs playRandomSoraMimi, a timer callback, the key handler or a
\* configuration handler
IsPlaybackTimerOrConfigStep ==
    \/ lastOp' # "none"
    \/ lastPlay' # NoPlay
    \/ TRIGGER_CHECK_INTERVAL' # TRIGGER_CHECK_INTERVAL
    \/ TRIGGER_PROBABILITY' # TRIGGER_PROBABILITY

\* C18: the archive changes only by a capture append (one push, at most one
\* eviction) and by the clear at the completion of a close; playback, timer
\* callbacks and configuration changes leave it as it is; and the fragment
\* of an invocation in flight stays what it was when it was built, whatever
\* is evicted later.
C18_ArchiveFrame ==
    [][ /\ ARCHIVE_QUEUE' # ARCHIVE_QUEUE => (IsCaptureAppend \/ IsClearAtClose)
        /\ IsPlaybackTimerOrConfigStep => ARCHIVE_QUEUE' = ARCHIVE_QUEUE
        /\ \A p \in plays :
              \E q \in plays' : q.id = p.id /\ q.fragment = p.fragment ]_vars

\* a fragment in flight still holds the oldest segment, which a capture on
\* the full archive has evicted since
C18_Witness ==
    /\ Len(ARCHIVE_QUEUE) = MAX_ARCHIVE_SEGMENTS
    /\ ARCHIVE_QUEUE[1].n = 2
    /\ \E p \in plays : ~p.ended /\ p.fragment[1].n = 1

\* C19: after any change of the check interval, for every value of the
\* input (zero, negative, fractional, non-numeric), checkIntervalMs is at
\* least 1000.
C19_CheckIntervalAtLeastMinimum ==
    TRIGGER_CHECK_INTERVAL >= 1000

\* the input has been changed more than once, the value that stands is the
\* lower limit itself and the running scheduler was restarted with it
C19_Witness ==
    /\ nEvents >= 2
    /\ TRIGGER_CHECK_INTERVAL = MIN_CHECK_INTERVAL
    /\ \E x \in intervals : x.period = MIN_CHECK_INTERVAL

\* C20 (as claimed): whenever the probabilistic timer is armed, its period
\* is the current value of checkIntervalMs, in every state of the audio
\* context.
C20_PeriodIsCheckInterval ==
    \A x \in intervals : x.period = TRIGGER_CHECK_INTERVAL

\* the armed timers of a table without their due times
ArmedAs(table) == {[id |-> x.id, lapse |-> IF "period" \in DOMAIN x
                                           THEN x.period ELSE x.delay] : x \in table}

\* the step ran a playRandomSoraMimi in which a node-creation call threw
ConstructionFailed == lastPlay'.played /\ ~lastPlay'.started

\* C21: when a node-creation call throws inside playRandomSoraMimi, the
\* invocation is abandoned without retry, no chain is put in flight, the
\* archive is unchanged, the probabilistic timer stays armed with the same
\* period, and the guarantee timer is re-armed if it was its callback that
\* called and is left as it was otherwise.
C21_FailureLeavesSchedulerAndArchive ==
    [][ConstructionFailed =>
          /\ nPlays' = nPlays + 1
          /\ plays' = plays
          /\ ARCHIVE_QUEUE' = ARCHIVE_QUEUE
          /\ randomTriggerInterval' = randomTriggerInterval
          /\ ArmedAs(intervals') = ArmedAs(intervals)
          /\ TRIGGER_CHECK_INTERVAL' = TRIGGER_CHECK_INTERVAL
          /\ IF lastOp' = "guaranteeFire"
             THEN /\ guaranteeTimer' # 0
                  /\ \E x \in timeouts' : /\ x.id = guaranteeTimer'
                                          /\ x.due = now + x.delay
                  /\ Cardinality(timeouts') = Cardinality(timeouts)
             ELSE /\ guaranteeTimer' = guaranteeTimer
                  /\ timeouts' = timeouts ]_vars

\* the playback call of a probabilistic tick threw and the timer is armed
C21_Witness ==
    /\ lastOp = "intervalFire"
    /\ lastPlay.played
    /\ ~lastPlay.started
    /\ plays = {}
    /\ \E x \in intervals : x.id = randomTriggerInterval /\ x.due > now

\* the step is the onended callback of an invocation in flight
IsCompletion ==
    \E p \in plays : \E q \in plays' : q.id = p.id /\ ~p.ended /\ q.ended

\* C22: stopSoramimi does not cancel an invocation in flight, and the
\* onended callback changes neither timer handle, no armed timer, not the
\* archive and none of the audio-context and session references: a
\* completion that comes after stop arms no timer.
C22_CompletionLeavesSession ==
    [][IsCompletion =>
          /\ randomTriggerInterval' = randomTriggerInterval
          /\ guaranteeTimer' = guaranteeTimer
          /\ intervals' = intervals
          /\ timeouts' = timeouts
          /\ ARCHIVE_QUEUE' = ARCHIVE_QUEUE
          /\ audioContext' = audioContext
          /\ contexts' = contexts
          /\ stream' = stream
          /\ liveStreams' = liveStreams
          /\ mediaStreamSource' = mediaStreamSource
          /\ scriptProcessorNode' = scriptProcessorNode
          /\ monitoringGain' = monitoringGain ]_vars

\* an invocation dispatched before stopSoramimi has completed while the
\* close of its context was pending, and no timer is armed
C22_Witness ==
    /\ lastOp = "onended"
    /\ audioContext # 0
    /\ contexts[audioContext].closing
    /\ \E p \in plays : p.ended /\ p.ctx = audioContext
    /\ randomTriggerInterval = 0
    /\ guaranteeTimer = 0
    /\ intervals = {}
    /\ timeouts = {}

\* C23: invocations in flight are independent: the completion of one
\* disconnects nodes of that invocation only; every other invocation, in
\* flight or finished, keeps its fragment, its end time and every
\* connection it had.
C23_CompletionTouchesOwnNodesOnly ==
    [][IsCompletion =>
          \E p \in plays :
             /\ ~p.ended
             /\ \E q \in plays' : /\ q.id = p.id
                                  /\ q.ended
                                  /\ q.connected \subseteq p.connected
             /\ plays \ {p} \subseteq plays'
             /\ Cardinality(plays') = Cardinality(plays) ]_vars

\* one of two overlapping invocations has completed and the other is still
\* in flight with its whole chain connected
C23_Witness ==
    /\ lastOp = "onended"
    /\ \E p, q \in plays :
          /\ p.id # q.id
          /\ p.ended
          /\ q.endsAt > p.endsAt
          /\ ~q.ended
          /\ q.connected = {"source", "filter", "panner", "gain"}

\* the samples of a fragment
RECURSIVE SamplesOf(_)
SamplesOf(fragment) ==
    IF fragment = << >> THEN 0
    ELSE Head(fragment).len + SamplesOf(Tail(fragment))

\* C24: with every archived segment BUFFER_SIZE long, the copy loop writes
\* exactly min(segmentLength, size * BUFFER_SIZE) samples; it takes the
\* segments at startIndex, startIndex + 1, ... modulo the archive size, each
\* at most once and only at indices inside the archive, and never writes
\* past the end of the fragment; a shorter archive leaves the rest empty.
C24_CopyLoopExact ==
    [][ ( /\ lastPlay'.played
          /\ \A i \in 1..Len(ARCHIVE_QUEUE) : ARCHIVE_QUEUE[i].len = BUFFER_SIZE )
        => LET sel == lastPlay'
               size == Len(ARCHIVE_QUEUE)
               fragment == sel.fragment
           IN  /\ sel.copied = Min(sel.segmentLength, size * BUFFER_SIZE)
               /\ SamplesOf(fragment) = sel.copied
               /\ Len(fragment) <= size
               /\ \A j \in 1..Len(fragment) :
                     /\ fragment[j].index = (sel.startIndex + j - 1) % size
                     /\ fragment[j].index \in 0..(size - 1)
                     /\ fragment[j].n = ARCHIVE_QUEUE[fragment[j].index + 1].n
                     /\ fragment[j].len = BUFFER_SIZE
               /\ \A j, k \in 1..Len(fragment) :
                     fragment[j].index = fragment[k].index => j = k ]_vars

\* a request longer than the archive: every segment copied once, starting
\* inside the archive and wrapping past its end, the rest left empty
C24_Witness ==
    /\ lastPlay.played
    /\ lastPlay.copied = lastPlay.segmentCount * BUFFER_SIZE
    /\ lastPlay.copied < lastPlay.segmentLength
    /\ lastPlay.startIndex > 0
    /\ Len(lastPlay.fragment) = lastPlay.segmentCount
    /\ lastPlay.fragment[Len(lastPlay.fragment)].index = lastPlay.startIndex - 1

\* a request shorter than the archive is filled whole
C24_WitnessFull ==
    /\ lastPlay.played
    /\ lastPlay.copied = lastPlay.segmentLength
    /\ lastPlay.copied < lastPlay.segmentCount * BUFFER_SIZE

\* C25: on every path (probabilistic tick, guarantee fire, key 't')
\* playRandomSoraMimi selects a start index only when the audio context is
\* running and the archive holds at least one segment; a call that finds
\* otherwise returns without selecting, without building a chain and
\* without changing the session, the archive, the indicators or a timer of
\* its own accord.
C25_NoSelectionWithoutArchiveOrContext ==
    [][ /\ lastPlay'.played =>
              /\ audioContext # 0
              /\ contexts[audioContext].state = "running"
              /\ Len(ARCHIVE_QUEUE) >= 1
              /\ lastPlay'.segmentCount = Len(ARCHIVE_QUEUE)
              /\ lastPlay'.startIndex \in 0..(Len(ARCHIVE_QUEUE) - 1)
        /\ (~lastPlay'.played /\ lastPlay' # NoPlay) =>
              /\ \/ audioContext = 0
                 \/ contexts[audioContext].state # "running"
                 \/ Len(ARCHIVE_QUEUE) = 0
              /\ plays' = plays
              /\ nPlays' = nPlays
              /\ soraMimiStatus' = soraMimiStatus
              /\ recordingDotSora' = recordingDotSora
              /\ monitoringConnected' = monitoringConnected
              /\ ARCHIVE_QUEUE' = ARCHIVE_QUEUE
              /\ audioContext' = audioContext
              /\ contexts' = contexts
              /\ intervals' = intervals
              /\ lastOp' = "keydown" => timeouts' = timeouts ]_vars

\* key 't' on a running context before the first capture: the call returned
\* at its guard
C25_Witness ==
    /\ lastOp = "keydown"
    /\ lastPlay = [ played |-> FALSE, skipped |-> TRUE ]
    /\ ContextRunning
    /\ Len(ARCHIVE_QUEUE) = 0
    /\ plays = {}
    /\ soraMimiStatus = "none"

OpenContexts ==
    {c \in CtxIds : contexts[c].state \in {"suspended", "running"}
                    /\ ~contexts[c].closing}

\* C27 (as claimed): the session goes Idle -> Capturing -> Idle: a
\* startSoramimi while a session is capturing or while an earlier start
\* still waits for the microphone creates no second audio context, no
\* second microphone stream and no second capture callback, so that every
\* captured block is appended once.
C27_SingleSession ==
    /\ Cardinality(OpenContexts) <= 1
    /\ Cardinality(liveStreams) <= 1
    /\ \A c \in CtxIds : contexts[c].processors <= 1

\* the segments of an archive captured after the last stopSoramimi
CapturedSinceStop(queue) == SelectSeq(queue, LAMBDA seg : seg.n > stopMark)

\* the close of a context resolves in this step while audioContext refers
\* to another context, created by a startSoramimi after the stop
CloseResolvesUnderNewSession ==
    /\ audioContext # 0
    /\ \E c \in CtxIds : /\ c # audioContext
                         /\ contexts[c].closing
                         /\ contexts'[c].state = "closed"

\* C28 (as claimed): the callback run when a close resolves resets only the
\* session that was stopped: when startSoramimi has run since the stop, the
\* reference to the new audio context is not nulled, the monitoring flag of
\* the new session is not reset, and the segments the new session has
\* captured stay in the archive.
C28_CloseResetsOnlyStoppedSession ==
    [][CloseResolvesUnderNewSession =>
          /\ audioContext' = audioContext
          /\ monitoringConnected' = monitoringConnected
          /\ CapturedSinceStop(ARCHIVE_QUEUE') = CapturedSinceStop(ARCHIVE_QUEUE)
      ]_vars

\* C29: segments carry the time of their capture and are kept in capture
\* order, so the candidate list of every selection is the prefix 0, 1, ...,
\* k - 1 of the archive indices: with an index every smaller index is a
\* candidate too.
C29_CandidatesArePrefix ==
    lastPlay.played =>
        /\ \A j \in 1..Len(lastPlay.candidates) : lastPlay.candidates[j] = j - 1
        /\ LastCandidates = 0..(Len(lastPlay.candidates) - 1)
        /\ Len(lastPlay.candidates) <= lastPlay.segmentCount

\* a selection whose candidates are a proper, non-empty prefix of an archive
\* that a capture callback has extended
C29_Witness ==
    /\ lastPlay.played
    /\ Len(lastPlay.candidates) > 0
    /\ Len(lastPlay.candidates) < lastPlay.segmentCount
    /\ captured > MAX_ARCHIVE_SEGMENTS
    /\ ARCHIVE_QUEUE[1].n > 1

\* the invocations whose fragment is still being played: started, the end
\* of the fragment not yet reached, in a context that still renders
StillPlaying ==
    {p \in plays : /\ ~p.ended
                   /\ p.endsAt > now
                   /\ contexts[p.ctx].state = "running"}

\* C30 (as claimed): the status text and the 'sora' mark of the recording
\* dot show a replay as long as at least one invocation is in flight: with
\* two overlapping invocations the completion of the first does not switch
\* the indicator to 'none' while the second is still playing.
C30_IndicatorOnWhilePlaying ==
    StillPlaying # {} => (soraMimiStatus = "occurring" /\ recordingDotSora)

====
